---------------------------- MODULE Spec2Model ----------------------------
(***************************************************************************)
(* A model of viadot's Supermetrics source                                 *)
(* (src/viadot/sources/supermetrics.py): construction with credential      *)
(* validation, query(), to_json(), the two column-name classmethods,       *)
(* _get_col_names() and to_df().                                           *)
(*                                                                         *)
(* Python values are modelled as follows.                                  *)
(*   - dict            : a set of <<key, value>> pairs, at most one pair   *)
(*                       per key ({} is the empty dict)                    *)
(*   - None / a value  : the sequences <<>> / <<value>> (None, Some)       *)
(*   - list            : a sequence                                        *)
(*   - exception       : a record [type, msg]; NoExc when nothing raised   *)
(*   - numpy.nan       : the string NaN, which is no cell of any payload   *)
(* The upstream API is the environment: every GET returns some payload of  *)
(* Responses, chosen anew at each request.  Requests that fail in transit  *)
(* (handle_api_response raising) are left out, and so are payloads whose   *)
(* rows differ in length.                                                  *)
(***************************************************************************)
EXTENDS Integers, Sequences, FiniteSets, TLC

\* ------------------------------------------------------------- bounds
\* The longest meta.query.fields list of a payload.
MaxFields == 2
\* The most rows in a payload's data (the first row included).
MaxRows == 3

\* ------------------------------------------------------ python values
None == <<>>
Some(x) == <<x>>
IsNone(o) == o = <<>>
Val(o) == o[1]

NaN == "NaN"

NoExc == [type |-> "", msg |-> ""]
Exc(t, m) == [type |-> t, msg |-> m]

QueryNotBuilt == Exc("ValueError", "Please build the query first")
EmptyResponse == Exc("ValueError", "Couldn't find column names as query returned no data.")
CredentialErr == Exc("CredentialError", "'user' and 'api_key' credentials are required.")
ValidationErr == Exc("ValidationError", "field required")
KeyErr == Exc("KeyError", "ds_id")
ShapeErr == Exc("ValueError", "columns passed, passed data had other columns")
EmptyFail == Exc("ValueError", "The query produced no data.")

\* dict helpers: d is a set of <<key, value>> pairs
Has(d, k) == \E p \in d : p[1] = k
Get(d, k) == (CHOOSE p \in d : p[1] = k)[2]
\* dict.get(k): None when the key is absent
DictGet(d, k) == IF Has(d, k) THEN Some(Get(d, k)) ELSE None
\* d[k] = v
DictSet(d, k, v) == {p \in d : p[1] # k} \cup {<<k, v>>}
\* truth value of an optional string: None and "" are false
TruthyStr(o) == ~IsNone(o) /\ Val(o) # ""

\* ------------------------------------------------------------- inputs
\* Credential mappings: each of user, api_key is absent, empty or set.
UserPairs == {{}, {<<"user", "">>}, {<<"user", "u">>}}
KeyPairs == {{}, {<<"api_key", "">>}, {<<"api_key", "k">>}}
CredDicts == {u \cup k : u \in UserPairs, k \in KeyPairs}
OptCreds == {None} \cup {Some(c) : c \in CredDicts}

\* Query parameter mappings handed to the constructor or to query().
ParamDicts ==
  { {},
    {<<"ds_id", "GA">>},
    {<<"ds_id", "FB">>},
    {<<"ds_accounts", "1">>},
    {<<"ds_id", "GA">>, <<"api_key", "old">>} }
OptParams == {None} \cup {Some(p) : p \in ParamDicts}

Policies == {"fail", "warn", "ignore"}

\* Field descriptors of meta.query.fields.
FieldDescs ==
  { [field_name |-> "f", field_split |-> "none"],
    [field_name |-> "g", field_split |-> "none"],
    [field_name |-> "h", field_split |-> "column"] }
FieldLists == UNION {[1..n -> FieldDescs] : n \in 1..MaxFields}

\* Rows of a payload: two cells each, some of them the empty string.
Rows == {<<"x", "">>, <<"", "y">>}
Datas == UNION {[1..n -> Rows] : n \in 0..MaxRows}

\* What a GET of the endpoint may return.
Responses ==
  {[meta |-> [query |-> [fields |-> fl]], data |-> d] : fl \in FieldLists, d \in Datas}
\* The same payloads seen through their "data" key alone (to_df's second
\* request reads nothing else).
DataResponses == {[data |-> d] : d \in Datas}


\* ------------------------------------------------ Supermetrics.__init__
\* get_source_credentials(config_key): the credential store hands back the
\* mapping kept under the key.
get_source_credentials(config) == config

\* credentials or get_source_credentials(config_key): None and {} are false.
resolve_credentials(credentials, config) ==
  IF ~IsNone(credentials) /\ Val(credentials) # {}
  THEN Val(credentials)
  ELSE get_source_credentials(config)

\* A slip that lets through credentials holding only one of the two fields.
credentials_missing_both(creds) ==
  ~(TruthyStr(DictGet(creds, "user")) \/ TruthyStr(DictGet(creds, "api_key")))

\* not (credentials.get("user") and credentials.get("api_key"))
credentials_missing(creds) ==
  ~(TruthyStr(DictGet(creds, "user")) /\ TruthyStr(DictGet(creds, "api_key")))

NoSelf == [api_key |-> None, user |-> None, query_params |-> None]

\* SupermetricsCredentials(**credentials): both fields are required strings.
schema_invalid(creds) == ~Has(creds, "user") \/ ~Has(creds, "api_key")

\* The constructor: raises CredentialError (or the schema's ValidationError),
\* or yields the object.
init(credentials, config, query_params) ==
  LET creds == resolve_credentials(credentials, config) IN
  IF credentials_missing(creds)
  THEN [raised |-> CredentialErr, self |-> NoSelf]
  ELSE IF schema_invalid(creds)
  THEN [raised |-> ValidationErr, self |-> NoSelf]
  ELSE [raised |-> NoExc,
        self |-> [api_key |-> Some(Get(creds, "api_key")),
                  user |-> Some(Get(creds, "user")),
                  query_params |-> query_params]]

\* --------------------------------------------------- Supermetrics.query
\* A slip that stores the parameters without attaching the API key.
query_without_api_key(self, params) ==
  [self EXCEPT !.query_params = Some(params)]

\* self.query_params = params; self.query_params["api_key"] = self.api_key
query(self, params) ==
  [self EXCEPT !.query_params = Some(DictSet(params, "api_key", Val(self.api_key)))]

\* ------------------------------------------------- Supermetrics.to_json
\* not self.query_params: None and {} are false.
query_params_unset(self) ==
  IsNone(self.query_params) \/ Val(self.query_params) = {}

\* One GET of the endpoint, answered with payload r, unless the query was
\* not built; fetches counts the requests issued.
to_json(self, r) ==
  IF query_params_unset(self)
  THEN [raised |-> QueryNotBuilt, value |-> None, fetches |-> 0]
  ELSE [raised |-> NoExc, value |-> Some(r), fetches |-> 1]

\* ------------------------------------------------------- column names
is_pivoted(response) ==
  \E i \in DOMAIN response.meta.query.fields :
    response.meta.query.fields[i].field_split = "column"

\* A slip that asks for data before looking at the pivot status.
_get_col_names_google_analytics_needs_data(response) ==
  IF response.data = <<>>
  THEN [raised |-> EmptyResponse, value |-> None]
  ELSE IF is_pivoted(response)
  THEN [raised |-> NoExc, value |-> Some(response.data[1])]
  ELSE LET cols_meta == response.meta.query.fields IN
       [raised |-> NoExc,
        value |-> Some([i \in DOMAIN cols_meta |-> cols_meta[i].field_name])]

\* A slip that falls back to the metadata when a pivoted payload has no data.
_get_col_names_google_analytics_no_raise(response) ==
  IF is_pivoted(response) /\ response.data # <<>>
  THEN [raised |-> NoExc, value |-> Some(response.data[1])]
  ELSE LET cols_meta == response.meta.query.fields IN
       [raised |-> NoExc,
        value |-> Some([i \in DOMAIN cols_meta |-> cols_meta[i].field_name])]

_get_col_names_google_analytics(response) ==
  IF is_pivoted(response)
  THEN IF response.data = <<>>
       THEN [raised |-> EmptyResponse, value |-> None]
       ELSE [raised |-> NoExc, value |-> Some(response.data[1])]
  ELSE LET cols_meta == response.meta.query.fields IN
       [raised |-> NoExc,
        value |-> Some([i \in DOMAIN cols_meta |-> cols_meta[i].field_name])]

_get_col_names_other(response) ==
  LET cols_meta == response.meta.query.fields IN
  [raised |-> NoExc,
   value |-> Some([i \in DOMAIN cols_meta |-> cols_meta[i].field_name])]

\* self.to_json(), then the classmethod the data source id selects.
_get_col_names(self, r) ==
  LET j == to_json(self, r) IN
  IF j.raised # NoExc
  THEN [raised |-> j.raised, value |-> None, fetches |-> j.fetches]
  ELSE IF ~Has(Val(self.query_params), "ds_id")
  THEN [raised |-> KeyErr, value |-> None, fetches |-> j.fetches]
  ELSE LET c == IF Get(Val(self.query_params), "ds_id") = "GA"
                THEN _get_col_names_google_analytics(Val(j.value))
                ELSE _get_col_names_other(Val(j.value))
       IN [raised |-> c.raised, value |-> c.value, fetches |-> j.fetches]

\* --------------------------------------------------- Supermetrics.to_df
\* A slip that keeps the first row: data instead of data[1:].
data_rows_all(data) == data

\* data[1:]
data_rows(data) == SubSeq(data, 2, Len(data))

\* A slip that leaves the cells as they came.
replace_nothing(rows) == rows

\* .replace("", np.nan), cell by cell
replace(rows) ==
  [i \in DOMAIN rows |->
     [j \in DOMAIN rows[i] |-> IF rows[i][j] = "" THEN NaN ELSE rows[i][j]]]

\* pd.DataFrame(rows, columns=columns): labelled rows; given column labels
\* must be as many as the cells of each row.
DataFrame(rows, columns) ==
  IF ~IsNone(columns) /\ \E i \in DOMAIN rows : Len(rows[i]) # Len(Val(columns))
  THEN [raised |-> ShapeErr, value |-> None]
  ELSE [raised |-> NoExc, value |-> Some([columns |-> columns, rows |-> rows])]

\* if data: DataFrame(data[1:], columns).replace("", nan)
\* else:    DataFrame(columns=columns)
build_df(data, columns) ==
  IF data # <<>>
  THEN LET f == DataFrame(data_rows(data), columns) IN
       IF f.raised # NoExc
       THEN f
       ELSE [raised |-> NoExc,
             value |-> Some([Val(f.value) EXCEPT !.rows = replace(@)])]
  ELSE DataFrame(<<>>, columns)

\* A slip that takes a table for empty only when it has no labels either.
df_empty_unlabelled(df) == Len(df.rows) = 0 /\ IsNone(df.columns)

\* df.empty: an axis of length 0
df_empty(df) ==
  \/ Len(df.rows) = 0
  \/ IF IsNone(df.columns) THEN Len(df.rows[1]) = 0 ELSE Len(Val(df.columns)) = 0

\* Source._handle_if_empty(if_empty): the empty-result policy.
_handle_if_empty(if_empty) ==
  CASE if_empty = "fail" -> [raised |-> EmptyFail, warned |-> FALSE]
    [] if_empty = "warn" -> [raised |-> NoExc, warned |-> TRUE]
    [] OTHER -> [raised |-> NoExc, warned |-> FALSE]

\* What a to_df call that raised on the way leaves behind.
Raised(e, fetches, response, columns, data) ==
  [raised |-> e, value |-> None, warned |-> FALSE, fetches |-> fetches,
   response |-> response, columns |-> columns, data |-> data, df |-> None]

\* to_df(if_empty), the first GET answered with r1 and the second with r2.
\* response, columns, data and df are the call's locals, kept for inspection.
to_df(self, if_empty, r1, r2) ==
  LET c == _get_col_names(self, r1)
      response == IF c.fetches = 1 THEN Some(r1) ELSE None
      columns == IF c.raised.type = "ValueError" THEN None ELSE c.value
  IN
  IF c.raised # NoExc /\ c.raised.type # "ValueError"
  THEN Raised(c.raised, c.fetches, response, None, None)
  ELSE
  LET j == to_json(self, r2)
      fetches == c.fetches + j.fetches
  IN
  IF j.raised # NoExc
  THEN Raised(j.raised, fetches, response, columns, None)
  ELSE
  LET data == Val(j.value).data
      b == build_df(data, columns)
  IN
  IF b.raised # NoExc
  THEN Raised(b.raised, fetches, response, columns, Some(data))
  ELSE
  LET df == Val(b.value)
      h == IF df_empty(df)
           THEN _handle_if_empty(if_empty)
           ELSE [raised |-> NoExc, warned |-> FALSE]
  IN
  [raised |-> h.raised,
   value |-> IF h.raised = NoExc THEN Some(df) ELSE None,
   warned |-> h.warned, fetches |-> fetches,
   response |-> response, columns |-> columns, data |-> Some(data),
   df |-> Some(df)]

\* ------------------------------------------------------------- state
VARIABLES
  constructed,   \* whether the caller holds a Supermetrics object
  self,          \* the object's api_key, user and query_params
  queryCalled,   \* whether query() was called on this object
  op,            \* the call that has just ended ("" between calls)
  arg,           \* its arguments
  ret            \* what it raised or returned

vars == <<constructed, self, queryCalled, op, arg, ret>>

NoArg == [none |-> TRUE]
NoRet == [raised |-> NoExc]

Init ==
  /\ constructed = FALSE
  /\ self = NoSelf
  /\ queryCalled = FALSE
  /\ op = ""
  /\ arg = NoArg
  /\ ret = NoRet

\* Supermetrics(credentials=..., config_key=..., query_params=...)
Construct ==
  /\ op = ""
  /\ \E credentials \in OptCreds, config \in CredDicts, query_params \in OptParams :
       LET r == init(credentials, config, query_params) IN
       /\ constructed' = (r.raised = NoExc)
       /\ self' = r.self
       /\ queryCalled' = FALSE
       /\ op' = "__init__"
       /\ arg' = [credentials |-> credentials, config |-> config,
                  query_params |-> query_params]
       /\ ret' = [raised |-> r.raised]

\* source.query(params)
Query ==
  /\ op = ""
  /\ constructed
  /\ \E params \in ParamDicts :
       /\ self' = query(self, params)
       /\ queryCalled' = TRUE
       /\ op' = "query"
       /\ arg' = [params |-> params]
       /\ ret' = NoRet
       /\ UNCHANGED constructed

\* source.to_json()
ToJson ==
  /\ op = ""
  /\ constructed
  /\ \E r \in Responses :
       /\ op' = "to_json"
       /\ arg' = NoArg
       /\ ret' = to_json(self, r)
       /\ UNCHANGED <<constructed, self, queryCalled>>

\* Supermetrics._get_col_names_google_analytics(response)
GetColNamesGoogleAnalytics ==
  /\ op = ""
  /\ \E response \in Responses :
       /\ op' = "_get_col_names_google_analytics"
       /\ arg' = [response |-> response]
       /\ ret' = _get_col_names_google_analytics(response)
       /\ UNCHANGED <<constructed, self, queryCalled>>

\* Supermetrics._get_col_names_other(response)
GetColNamesOther ==
  /\ op = ""
  /\ \E response \in Responses :
       /\ op' = "_get_col_names_other"
       /\ arg' = [response |-> response]
       /\ ret' = _get_col_names_other(response)
       /\ UNCHANGED <<constructed, self, queryCalled>>

\* source.to_df(if_empty)
ToDf ==
  /\ op = ""
  /\ constructed
  /\ \E if_empty \in Policies, r1 \in Responses, r2 \in DataResponses :
       /\ op' = "to_df"
       /\ arg' = [if_empty |-> if_empty]
       /\ ret' = to_df(self, if_empty, r1, r2)
       /\ UNCHANGED <<constructed, self, queryCalled>>

\* The caller takes the result; nothing of the call outlives it.
Return ==
  /\ op # ""
  /\ op' = ""
  /\ arg' = NoArg
  /\ ret' = NoRet
  /\ UNCHANGED <<constructed, self, queryCalled>>

Next ==
  \/ Construct
  \/ Query
  \/ ToJson
  \/ GetColNamesGoogleAnalytics
  \/ GetColNamesOther
  \/ ToDf
  \/ Return

Spec == Init /\ [][Next]_vars

\* ------------------------------------------------------------ properties
\* The missing-value substitution, stated cell by cell.
Marked(cell) == IF cell = "" THEN NaN ELSE cell

\* row is the payload row src with every "" cell turned into the marker.
RowOf(row, src) ==
  /\ Len(row) = Len(src)
  /\ \A j \in 1..Len(src) : row[j] = Marked(src[j])

\* names are the field_name values of fields, in declared order.
NamesOf(names, fields) ==
  /\ Len(names) = Len(fields)
  /\ \A i \in 1..Len(fields) : names[i] = fields[i].field_name

\* A to_df call got as far as building the table; it returned the table.
ToDfBuilt == op = "to_df" /\ ~IsNone(ret.df)
ToDfReturned == op = "to_df" /\ ret.raised = NoExc
\* The payload of the column request was not pivoted / was pivoted.
ColumnPayloadFlat ==
  op = "to_df" /\ ~IsNone(ret.response) /\ ~is_pivoted(Val(ret.response))
ColumnPayloadPivoted ==
  op = "to_df" /\ ~IsNone(ret.response) /\ is_pivoted(Val(ret.response))
\* Both requests of the call were answered with the same data.
SameData ==
  op = "to_df" /\ ~IsNone(ret.response) /\ ~IsNone(ret.data)
  /\ Val(ret.response).data = Val(ret.data)

C2_PivotedHeaderAndRows ==
  (ToDfReturned /\ ColumnPayloadPivoted /\ Val(ret.response).data # <<>>) =>
    LET data == Val(ret.response).data
        df == Val(ret.value)
    IN /\ df.columns = Some(data[1])
       /\ Len(df.rows) = Len(data) - 1
       /\ \A i \in 1..Len(df.rows) : RowOf(df.rows[i], data[i + 1])

\* C3: for a non-pivoted response, column derivation returns the field_name
\* of each descriptor in declared order and does not fail, with or without
\* data; to_df, whichever classmethod it selects, ends up with those names.
C3_FlatColumnsAreFieldNames ==
  /\ (/\ op \in {"_get_col_names_google_analytics", "_get_col_names_other"}
      /\ ~is_pivoted(arg.response)) =>
       /\ ret.raised = NoExc
       /\ ~IsNone(ret.value)
       /\ NamesOf(Val(ret.value), arg.response.meta.query.fields)
  /\ (ColumnPayloadFlat /\ ret.raised # KeyErr) =>
       /\ ~IsNone(ret.columns)
       /\ NamesOf(Val(ret.columns), Val(ret.response).meta.query.fields)

C3_Witness ==
  /\ op = "_get_col_names_google_analytics"
  /\ ~is_pivoted(arg.response)
  /\ arg.response.data = <<>>
  /\ ret.value = Some(<<"g", "f">>)

\* C4: to_df applies the empty-result policy exactly when the table it built
\* has no rows: fail raises, warn warns and returns the empty table, ignore
\* returns it silently; a table with a row is returned under every policy.
C4_EmptyPolicy ==
  ToDfBuilt =>
    LET df == Val(ret.df)
        empty == Len(df.rows) = 0
    IN /\ (ret.raised = EmptyFail) <=> (empty /\ arg.if_empty = "fail")
       /\ ret.warned <=> (empty /\ arg.if_empty = "warn")
       /\ ~(empty /\ arg.if_empty = "fail") =>
            (ret.raised = NoExc /\ ret.value = Some(df))

C4_Witness ==
  /\ ToDfBuilt
  /\ Val(ret.data) # <<>>
  /\ Val(ret.df).rows = <<>>
  /\ ~IsNone(Val(ret.df).columns)
  /\ arg.if_empty = "warn"
  /\ ret.warned
  /\ ret.value = ret.df

C6_PivotedEmptyRaises ==
  (/\ op = "_get_col_names_google_analytics"
   /\ is_pivoted(arg.response)
   /\ arg.response.data = <<>>) =>
     (ret.raised = EmptyResponse /\ IsNone(ret.value))

C6_Witness ==
  /\ op = "_get_col_names_google_analytics"
  /\ is_pivoted(arg.response)
  /\ arg.response.data = <<>>
  /\ ret.raised = EmptyResponse

\* Column derivation failed in this to_df call: a pivoted GA payload without
\* data answered the column request.
ColumnDerivationFailed ==
  /\ ColumnPayloadPivoted
  /\ Val(ret.response).data = <<>>
  /\ DictGet(Val(self.query_params), "ds_id") = Some("GA")

\* C7 as stated: when column derivation fails for a pivoted response without
\* data, to_df goes on with columns None and builds an empty table: warn and
\* ignore return an empty table, and only fail raises (the policy error).
C7_RecoversToEmptyTable ==
  ColumnDerivationFailed =>
    /\ IsNone(ret.columns)
    /\ ToDfBuilt
    /\ Val(ret.df).rows = <<>>
    /\ arg.if_empty \in {"warn", "ignore"} =>
         (ret.raised = NoExc /\ Val(ret.value).rows = <<>>)
    /\ ret.raised # NoExc => (ret.raised = EmptyFail /\ arg.if_empty = "fail")

\* No query parameters are set on the object.
NoQueryParams == self.query_params = None \/ self.query_params = Some({})

\* C8: to_json and to_df raise the query-not-built error exactly when no
\* query parameters are set, then without any request to the API; once
\* query(params) was called on the object they never raise it.
C8_QueryNotBuilt ==
  op \in {"to_json", "to_df"} =>
    /\ (ret.raised = QueryNotBuilt) <=> NoQueryParams
    /\ ret.raised = QueryNotBuilt => ret.fetches = 0
    /\ queryCalled => ret.raised # QueryNotBuilt

C8_Witness ==
  /\ op = "to_df"
  /\ self.query_params = Some({})
  /\ ret.raised = QueryNotBuilt
  /\ ret.fetches = 0

\* The credentials the constructor resolved lack a non-empty user or a
\* non-empty api_key.
LacksCredential(creds) ==
  \/ ~\E p \in creds : p[1] = "user" /\ p[2] # ""
  \/ ~\E p \in creds : p[1] = "api_key" /\ p[2] # ""

\* C9: construction with resolved credentials that lack a non-empty user or
\* api_key raises CredentialError, and no object with an unset or empty
\* api_key or user exists.
C9_CredentialsRequired ==
  /\ op = "__init__" =>
       LET creds == IF arg.credentials \in {None, Some({})}
                    THEN arg.config
                    ELSE Val(arg.credentials)
       IN /\ LacksCredential(creds) => (ret.raised = CredentialErr /\ ~constructed)
          /\ ~LacksCredential(creds) => (ret.raised = NoExc /\ constructed)
  /\ constructed =>
       /\ ~IsNone(self.api_key) /\ Val(self.api_key) # ""
       /\ ~IsNone(self.user) /\ Val(self.user) # ""

C9_Witness ==
  /\ op = "__init__"
  /\ arg.credentials = Some({<<"user", "u">>, <<"api_key", "">>})
  /\ arg.config = {<<"user", "u">>, <<"api_key", "k">>}
  /\ ret.raised = CredentialErr
  /\ ~constructed

\* C10 as stated: a to_df call issues exactly one request, and the columns
\* and rows of the table it returns come from that one payload.
C10_SingleFetch ==
  ToDfReturned => (ret.fetches = 1 /\ SameData)

=============================================================================
